---- MODULE Spec2Model ----
(***************************************************************************)
(* Per-entity artificial lights control (ArtificialLightsNatives.cpp).     *)
(*                                                                         *)
(* The state is the allow-list g_entitiesIgnoringBlackout, the reader /    *)
(* writer lock g_entitiesMutex, the two flag-cell pointers with the host   *)
(* cells they point at, the script-guid table of the host, and the         *)
(* position and locals of every thread: script threads run the four        *)
(* natives and the OnKillNetworkDone handler, render threads run           *)
(* AddSceneLightHook.                                                      *)
(***************************************************************************)
EXTENDS Integers, Sequences, FiniteSets, TLC

\* ------------------------------------------------------------------ bounds
NumPtrs == 2
NumHandles == 2
NumScript == 1
\* deepest nesting of hook invocations on one thread (NestSpec)
MaxNest == 2

\* ------------------------------------------------------- program constants
NULL == 0
NullHandle == 0

Ptrs == 1..NumPtrs
Handles == 1..NumHandles
ScriptThreads == 1..NumScript
\* The thread the session-teardown signal (OnKillNetworkDone) fires on.
EventThread == NumScript + 1
ControlThreads == ScriptThreads \cup {EventThread}
\* Thread identities of the host's light-processing threads.
RenderThreadIds == {0}
NoThread == -100

\* Addresses of CLightEntity objects handed to the hook: NULL, a light entity
\* whose m_parentEntity is null, and one light entity per entity address.
LightEntities == 0..(NumPtrs + 1)
SceneLights == {"sceneLight"}

NullCell == "nullptr"
LightsCell == "CRenderer::sm_disableArtificialLights"
VehLightsCell == "CRenderer::sm_disableArtificialVehLights"

VARIABLES
    g_entitiesIgnoringBlackout,   \* std::unordered_set<void*>
    g_entitiesMutex,              \* std::shared_mutex: [writer, readers]
    g_disableArtificialLights,    \* bool*: NullCell or LightsCell
    g_disableArtificialVehLights, \* bool*: NullCell or VehLightsCell
    hostFlags,                    \* the host's two flag cells, by address
    guidTable,                    \* rage::fwScriptGuid: handle -> entity address
    script,                       \* per script thread: the native in progress
    render,                       \* per render thread: stack of hook frames
    allowList                     \* the sequential Allow-List the completed
                                  \* mutations add up to (Add/Remove/Clear)

vars == <<g_entitiesIgnoringBlackout, g_entitiesMutex, g_disableArtificialLights,
          g_disableArtificialVehLights, hostFlags, guidTable, script, render,
          allowList>>

\* ------------------------------------------------------------ host memory
\* *(void**)((char*)lightEntity + LIGHT_ENTITY_PARENT_OFFSET)
m_parentEntity(lightEntity) == lightEntity - 1

GetParentEntityFromLightEntity(lightEntity) ==
    IF lightEntity = NULL THEN NULL ELSE m_parentEntity(lightEntity)

\* handle -> live object address, or the null sentinel
GetBaseFromGuid(handle) ==
    IF handle \in Handles THEN guidTable[handle] ELSE NULL

\* object address -> the handle that resolves to it, or zero if none exists
GetGuidFromBase(entityPtr) ==
    IF \E h \in Handles : guidTable[h] = entityPtr
    THEN {h \in Handles : guidTable[h] = entityPtr}
    ELSE {NullHandle}

\* ------------------------------------------------------ std::shared_mutex
Unlocked == [writer |-> NoThread, readers |-> {}]

\* mutant: the shared lock does not wait for the writer to leave
CanLockShared_IgnoresWriter(m, t) == TRUE

CanLockShared(m, t) == m.writer = NoThread
LockShared(m, t) == [m EXCEPT !.readers = @ \cup {t}]
UnlockShared(m, t) == [m EXCEPT !.readers = @ \ {t}]

\* mutant: the exclusive lock does not wait for the readers to leave
CanLockUnique_IgnoresReaders(m, t) == m.writer = NoThread

CanLockUnique(m, t) == m.writer = NoThread /\ m.readers = {}
LockUnique(m, t) == [m EXCEPT !.writer = t]
\* mutant: the exclusive lock is not given back
UnlockUnique_Forgets(m, t) == m

UnlockUnique(m, t) == [m EXCEPT !.writer = NoThread]

HoldsLock(t) == g_entitiesMutex.writer = t \/ t \in g_entitiesMutex.readers

\* ------------------------------------------------- std::unordered_set ops
\* mutant: inserting a present element removes it
SetInsert_Toggles(s, e) == IF e \in s THEN s \ {e} ELSE s \cup {e}

SetInsert(s, e) == s \cup {e}
\* mutant: erase drops every element
SetErase_DropsAll(s, e) == {}

SetErase(s, e) == s \ {e}
\* mutant: clear leaves one element behind
SetClear_KeepsOne(s) == IF s = {} THEN {} ELSE {CHOOSE e \in s : TRUE}

SetClear(s) == {}
\* mutant: the comparison with end() is inverted
SetFind_Inverted(s, e) == e \notin s

SetFind(s, e) == e \in s

\* ----------------------------------------------------------------- Init
IdleCall == [pc |-> "idle", op |-> "none", entityHandle |-> NullHandle,
             ignoreBlackout |-> FALSE, entity |-> NULL, result |-> FALSE,
             visited |-> {}, cur |-> NULL, entityList |-> <<>>]

\* The state after HookFunction ran: the allow-list is empty, each of the two
\* pattern matches has resolved its cell address or not, and the host has
\* some entities registered.
Init ==
    /\ g_entitiesIgnoringBlackout = {}
    /\ g_entitiesMutex = Unlocked
    /\ g_disableArtificialLights \in {NullCell, LightsCell}
    /\ g_disableArtificialVehLights \in {NullCell, VehLightsCell}
    /\ hostFlags \in [{LightsCell, VehLightsCell} -> BOOLEAN]
    \* with an address unresolved the cells are sampled at one pair of
    \* distinct values; with both resolved at all four
    /\ (NullCell \in {g_disableArtificialLights, g_disableArtificialVehLights}
            => hostFlags[LightsCell] /\ ~hostFlags[VehLightsCell])
    /\ guidTable \in {f \in [Handles -> Ptrs \cup {NULL}] :
                        \A a, b \in Handles :
                            (a # b /\ f[a] # NULL) => f[a] # f[b]}
    /\ script = [t \in ControlThreads |-> IdleCall]
    /\ render = [t \in RenderThreadIds |-> <<>>]
    /\ allowList = {}

\* ------------------------------------------------ the host's entity churn
\* The host creates an entity at a free address under a free handle.
CreateEntity(h, p) ==
    /\ guidTable[h] = NULL
    /\ \A k \in Handles : guidTable[k] # p
    /\ guidTable' = [guidTable EXCEPT ![h] = p]
    /\ UNCHANGED <<g_entitiesIgnoringBlackout, g_entitiesMutex,
                   g_disableArtificialLights, g_disableArtificialVehLights,
                   hostFlags, script, render, allowList>>

\* The host destroys an entity: its handle goes stale, the allow-list is
\* not told.
DestroyEntity(h) ==
    /\ guidTable[h] # NULL
    /\ guidTable' = [guidTable EXCEPT ![h] = NULL]
    /\ UNCHANGED <<g_entitiesIgnoringBlackout, g_entitiesMutex,
                   g_disableArtificialLights, g_disableArtificialVehLights,
                   hostFlags, script, render, allowList>>

\* --------------------------------------------------------- script threads
ScriptFrame == <<g_disableArtificialLights, g_disableArtificialVehLights,
                 hostFlags, guidTable, render>>

Begin(t, op, h, toggle, pc) ==
    /\ script[t].pc = "idle"
    /\ script' = [script EXCEPT ![t] =
                    [IdleCall EXCEPT !.pc = pc, !.op = op,
                                     !.entityHandle = h,
                                     !.ignoreBlackout = toggle]]
    /\ UNCHANGED <<g_entitiesIgnoringBlackout, g_entitiesMutex, allowList>>
    /\ UNCHANGED ScriptFrame

At(t, op, pc) == script[t].op = op /\ script[t].pc = pc

\* mutant: the null test of the resolved address is missing
IsNullEntity_Never(entity) == FALSE

\* if (!entity) of the two natives that resolve a handle
IsNullEntity(entity) == entity = NULL

\* SET_ENTITY_LIGHTS_IGNORE_ARTIFICIAL_STATE(entity, toggle)
SetIgnoreStateBegin(t, h, toggle) == Begin(t, "set", h, toggle, "resolve")

SetIgnoreStateResolved(t) ==
    /\ At(t, "set", "resolve")
    /\ LET entity == GetBaseFromGuid(script[t].entityHandle) IN
         script' = [script EXCEPT ![t] =
                      IF IsNullEntity(entity) THEN IdleCall
                      ELSE [@ EXCEPT !.pc = "lock", !.entity = entity]]
    /\ UNCHANGED <<g_entitiesIgnoringBlackout, g_entitiesMutex, allowList>>
    /\ UNCHANGED ScriptFrame

SetIgnoreStateLock(t) ==
    /\ At(t, "set", "lock")
    /\ CanLockUnique(g_entitiesMutex, t)
    /\ g_entitiesMutex' = LockUnique(g_entitiesMutex, t)
    /\ script' = [script EXCEPT ![t].pc = "cs"]
    /\ UNCHANGED <<g_entitiesIgnoringBlackout, allowList>>
    /\ UNCHANGED ScriptFrame

\* mutant: the two branches are exchanged
SetIgnoreStateApply_Exchanged(s, entity, ignoreBlackout) ==
    IF ignoreBlackout THEN SetErase(s, entity) ELSE SetInsert(s, entity)

SetIgnoreStateApply(s, entity, ignoreBlackout) ==
    IF ignoreBlackout THEN SetInsert(s, entity) ELSE SetErase(s, entity)

SetIgnoreStateMutate(t) ==
    /\ At(t, "set", "cs")
    /\ g_entitiesIgnoringBlackout' =
         SetIgnoreStateApply(g_entitiesIgnoringBlackout, script[t].entity,
                             script[t].ignoreBlackout)
    /\ allowList' = IF script[t].ignoreBlackout
                    THEN allowList \cup {script[t].entity}
                    ELSE allowList \ {script[t].entity}
    /\ g_entitiesMutex' = UnlockUnique(g_entitiesMutex, t)
    /\ script' = [script EXCEPT ![t] = IdleCall]
    /\ UNCHANGED ScriptFrame

\* DOES_ENTITY_LIGHTS_IGNORE_ARTIFICIAL_STATE(entity) -> bool
GetIgnoreStateBegin(t, h) == Begin(t, "get", h, FALSE, "resolve")

GetIgnoreStateResolved(t) ==
    /\ At(t, "get", "resolve")
    /\ LET entity == GetBaseFromGuid(script[t].entityHandle) IN
         script' = [script EXCEPT ![t] =
                      IF IsNullEntity(entity)
                      THEN [@ EXCEPT !.pc = "ret", !.result = FALSE]
                      ELSE [@ EXCEPT !.pc = "lock", !.entity = entity]]
    /\ UNCHANGED <<g_entitiesIgnoringBlackout, g_entitiesMutex, allowList>>
    /\ UNCHANGED ScriptFrame

\* DoesEntityIgnoreBlackout(entity), entity non-null: take the shared lock
GetIgnoreStateLock(t) ==
    /\ At(t, "get", "lock")
    /\ CanLockShared(g_entitiesMutex, t)
    /\ g_entitiesMutex' = LockShared(g_entitiesMutex, t)
    /\ script' = [script EXCEPT ![t].pc = "cs"]
    /\ UNCHANGED <<g_entitiesIgnoringBlackout, allowList>>
    /\ UNCHANGED ScriptFrame

GetIgnoreStateFind(t) ==
    /\ At(t, "get", "cs")
    /\ script' = [script EXCEPT ![t] =
                    [@ EXCEPT !.pc = "ret",
                              !.result = SetFind(g_entitiesIgnoringBlackout,
                                                 script[t].entity)]]
    /\ g_entitiesMutex' = UnlockShared(g_entitiesMutex, t)
    /\ UNCHANGED <<g_entitiesIgnoringBlackout, allowList>>
    /\ UNCHANGED ScriptFrame

GetIgnoreStateReturn(t) ==
    /\ At(t, "get", "ret")
    /\ script' = [script EXCEPT ![t] = IdleCall]
    /\ UNCHANGED <<g_entitiesIgnoringBlackout, g_entitiesMutex, allowList>>
    /\ UNCHANGED ScriptFrame

\* CLEAR_ALL_ENTITY_LIGHTS_IGNORE_ARTIFICIAL_STATE()
ClearAllBegin(t) == Begin(t, "clear", NullHandle, FALSE, "lock")

ClearAllLock(t) ==
    /\ At(t, "clear", "lock")
    /\ CanLockUnique(g_entitiesMutex, t)
    /\ g_entitiesMutex' = LockUnique(g_entitiesMutex, t)
    /\ script' = [script EXCEPT ![t].pc = "cs"]
    /\ UNCHANGED <<g_entitiesIgnoringBlackout, allowList>>
    /\ UNCHANGED ScriptFrame

ClearAllClear(t) ==
    /\ At(t, "clear", "cs")
    /\ g_entitiesIgnoringBlackout' = SetClear(g_entitiesIgnoringBlackout)
    /\ allowList' = {}
    /\ g_entitiesMutex' = UnlockUnique(g_entitiesMutex, t)
    /\ script' = [script EXCEPT ![t] = IdleCall]
    /\ UNCHANGED ScriptFrame

\* OnKillNetworkDone: the session-teardown signal fires on thread t
TeardownBegin(t) == Begin(t, "teardown", NullHandle, FALSE, "lock")

TeardownLock(t) ==
    /\ At(t, "teardown", "lock")
    /\ CanLockUnique(g_entitiesMutex, t)
    /\ g_entitiesMutex' = LockUnique(g_entitiesMutex, t)
    /\ script' = [script EXCEPT ![t].pc = "cs"]
    /\ UNCHANGED <<g_entitiesIgnoringBlackout, allowList>>
    /\ UNCHANGED ScriptFrame

TeardownClear(t) ==
    /\ At(t, "teardown", "cs")
    /\ g_entitiesIgnoringBlackout' = SetClear(g_entitiesIgnoringBlackout)
    /\ allowList' = {}
    /\ g_entitiesMutex' = UnlockUnique(g_entitiesMutex, t)
    /\ script' = [script EXCEPT ![t] = IdleCall]
    /\ UNCHANGED ScriptFrame

\* GET_ALL_ENTITIES_IGNORING_ARTIFICIAL_LIGHTS_STATE() -> int[]
EnumerateAllBegin(t) == Begin(t, "enum", NullHandle, FALSE, "lock")

EnumerateAllLock(t) ==
    /\ At(t, "enum", "lock")
    /\ CanLockShared(g_entitiesMutex, t)
    /\ g_entitiesMutex' = LockShared(g_entitiesMutex, t)
    /\ script' = [script EXCEPT ![t].pc = "iter"]
    /\ UNCHANGED <<g_entitiesIgnoringBlackout, allowList>>
    /\ UNCHANGED ScriptFrame

\* the range-for picks the next element (the container's order is
\* unspecified) and calls GetGuidFromBase on it
EnumerateAllNext(t) ==
    /\ At(t, "enum", "iter")
    /\ \E entityPtr \in g_entitiesIgnoringBlackout \ script[t].visited :
         script' = [script EXCEPT ![t] =
                      [@ EXCEPT !.pc = "guid", !.cur = entityPtr]]
    /\ UNCHANGED <<g_entitiesIgnoringBlackout, g_entitiesMutex, allowList>>
    /\ UNCHANGED ScriptFrame

\* mutant: the zero handle is pushed as well
PushHandle_Always(entityList, handle) == Append(entityList, handle)

\* if (handle != 0) entityList.push_back(handle)
PushHandle(entityList, handle) ==
    IF handle # NullHandle THEN Append(entityList, handle) ELSE entityList

EnumerateAllGuid(t) ==
    /\ At(t, "enum", "guid")
    /\ \E handle \in GetGuidFromBase(script[t].cur) :
         script' = [script EXCEPT ![t] =
                      [@ EXCEPT !.pc = "iter", !.cur = NULL,
                                !.visited = @ \cup {script[t].cur},
                                !.entityList = PushHandle(@, handle)]]
    /\ UNCHANGED <<g_entitiesIgnoringBlackout, g_entitiesMutex, allowList>>
    /\ UNCHANGED ScriptFrame

\* the loop is over: the lock guard is released at the end of the handler
EnumerateAllDone(t) ==
    /\ At(t, "enum", "iter")
    /\ g_entitiesIgnoringBlackout \ script[t].visited = {}
    /\ g_entitiesMutex' = UnlockShared(g_entitiesMutex, t)
    /\ script' = [script EXCEPT ![t].pc = "ret"]
    /\ UNCHANGED <<g_entitiesIgnoringBlackout, allowList>>
    /\ UNCHANGED ScriptFrame

EnumerateAllReturn(t) ==
    /\ At(t, "enum", "ret")
    /\ script' = [script EXCEPT ![t] = IdleCall]
    /\ UNCHANGED <<g_entitiesIgnoringBlackout, g_entitiesMutex, allowList>>
    /\ UNCHANGED ScriptFrame

\* ---------------------------------------------------------- render threads
RenderFrame == <<g_entitiesIgnoringBlackout, g_disableArtificialLights,
                 g_disableArtificialVehLights, guidTable, script, allowList>>

Depth(t) == Len(render[t])
Top(t) == render[t][Len(render[t])]
InHook(t, pc) == Depth(t) > 0 /\ Top(t).pc = pc
SetTop(t, f) == [render EXCEPT ![t] = [@ EXCEPT ![Len(@)] = f]]

\* dereferences of the two bool* globals
ReadCell(mem, ptr) == IF ptr \in DOMAIN mem THEN mem[ptr] ELSE FALSE
WriteCell(mem, ptr, v) ==
    IF ptr \in DOMAIN mem THEN [mem EXCEPT ![ptr] = v] ELSE mem

\* The frame of one AddSceneLightHook invocation: its arguments and locals,
\* and what the invocation has done so far (received, enterFlags, wasMember,
\* touched, origCalls, origArgs, origRet, reentered record it; the code does
\* not read them).
NewFrame(sceneLight, lightEntity, addToPreviousLightList) ==
    [pc |-> "check",
     sceneLight |-> sceneLight,
     lightEntity |-> lightEntity,
     addToPreviousLightList |-> addToPreviousLightList,
     parentEntity |-> GetParentEntityFromLightEntity(lightEntity),
     shouldOverride |-> FALSE,
     origLightsState |-> FALSE,
     origVehLightsState |-> FALSE,
     result |-> FALSE,
     received |-> <<sceneLight, lightEntity, addToPreviousLightList>>,
     enterFlags |-> hostFlags,
     wasMember |-> FALSE,
     touched |-> {},
     origCalls |-> 0,
     origArgs |-> <<>>,
     origRet |-> FALSE,
     reentered |-> FALSE]

\* the host calls Lights::AddSceneLight, which is the hook
HookEnter(t, sceneLight, lightEntity, addToPreviousLightList) ==
    /\ Depth(t) = 0
    /\ render' = [render EXCEPT ![t] =
                    Append(@, NewFrame(sceneLight, lightEntity,
                                       addToPreviousLightList))]
    /\ UNCHANGED <<g_entitiesMutex, hostFlags>>
    /\ UNCHANGED RenderFrame

\* the original host logic, running inside an invocation, calls
\* Lights::AddSceneLight again on the same thread: the hook is entered anew
HookReenter(t, sceneLight, lightEntity, addToPreviousLightList) ==
    /\ InHook(t, "inorig")
    /\ Depth(t) < MaxNest
    /\ render' = [render EXCEPT ![t] =
                    Append([@ EXCEPT ![Len(@)].reentered = TRUE],
                           NewFrame(sceneLight, lightEntity,
                                    addToPreviousLightList))]
    /\ UNCHANGED <<g_entitiesMutex, hostFlags>>
    /\ UNCHANGED RenderFrame

\* mutant: the null test of DoesEntityIgnoreBlackout is missing
EntityIsNull_Never(entity) == FALSE

\* DoesEntityIgnoreBlackout: if (!entity)
EntityIsNull(entity) == entity = NULL

\* DoesEntityIgnoreBlackout(parentEntity): if (!entity) return false
HookCheckNull(t) ==
    /\ InHook(t, "check")
    /\ EntityIsNull(Top(t).parentEntity)
    /\ render' = SetTop(t, [Top(t) EXCEPT !.pc = "save",
                                          !.shouldOverride = FALSE])
    /\ UNCHANGED <<g_entitiesMutex, hostFlags>>
    /\ UNCHANGED RenderFrame

\* DoesEntityIgnoreBlackout(parentEntity): std::shared_lock lock(...)
HookCheckLock(t) ==
    /\ InHook(t, "check")
    /\ ~EntityIsNull(Top(t).parentEntity)
    /\ CanLockShared(g_entitiesMutex, t)
    /\ g_entitiesMutex' = LockShared(g_entitiesMutex, t)
    /\ render' = SetTop(t, [Top(t) EXCEPT !.pc = "find"])
    /\ UNCHANGED hostFlags
    /\ UNCHANGED RenderFrame

\* DoesEntityIgnoreBlackout(parentEntity): find, then the lock guard ends
HookFind(t) ==
    /\ InHook(t, "find")
    /\ render' = SetTop(t, [Top(t) EXCEPT
                              !.pc = "save",
                              !.shouldOverride =
                                  SetFind(g_entitiesIgnoringBlackout,
                                          Top(t).parentEntity),
                              !.wasMember = Top(t).parentEntity \in allowList])
    /\ g_entitiesMutex' = UnlockShared(g_entitiesMutex, t)
    /\ UNCHANGED hostFlags
    /\ UNCHANGED RenderFrame

\* mutant: the membership found by the check is not tested
OverrideCondition_IgnoresMembership(f) ==
    /\ g_disableArtificialLights # NullCell
    /\ g_disableArtificialVehLights # NullCell

\* mutant: the second pointer is not tested
OverrideCondition_OnePointer(f) ==
    /\ f.shouldOverride
    /\ g_disableArtificialLights # NullCell

\* shouldOverride && g_disableArtificialLights && g_disableArtificialVehLights
OverrideCondition(f) ==
    /\ f.shouldOverride
    /\ g_disableArtificialLights # NullCell
    /\ g_disableArtificialVehLights # NullCell

\* mutant: only the first cell is cleared
OverriddenFlags_FirstOnly(mem) ==
    WriteCell(mem, g_disableArtificialLights, FALSE)

\* *g_disableArtificialLights = false; *g_disableArtificialVehLights = false
OverriddenFlags(mem) ==
    WriteCell(WriteCell(mem, g_disableArtificialLights, FALSE),
              g_disableArtificialVehLights, FALSE)

\* mutant: the cells are switched back on instead of restored
RestoredFlags_ReEnable(mem, f) ==
    WriteCell(WriteCell(mem, g_disableArtificialLights, TRUE),
              g_disableArtificialVehLights, TRUE)

\* mutant: the two saved values are written back to the wrong cells
RestoredFlags_Swapped(mem, f) ==
    WriteCell(WriteCell(mem, g_disableArtificialLights, f.origVehLightsState),
              g_disableArtificialVehLights, f.origLightsState)

\* *g_disableArtificialLights = origLightsState;
\* *g_disableArtificialVehLights = origVehLightsState
RestoredFlags(mem, f) ==
    WriteCell(WriteCell(mem, g_disableArtificialLights, f.origLightsState),
              g_disableArtificialVehLights, f.origVehLightsState)

\* mutant: the parent entity is handed on in place of the light entity
OrigCallArgs_Parent(f) ==
    <<f.sceneLight, f.parentEntity, f.addToPreviousLightList>>

\* the arguments handed to g_origAddSceneLight
OrigCallArgs(f) == <<f.sceneLight, f.lightEntity, f.addToPreviousLightList>>

\* save the two cells and write false to both, then enter the original
HookSaveAndCall(t) ==
    /\ InHook(t, "save")
    /\ LET f == Top(t)
           ptrs == {g_disableArtificialLights, g_disableArtificialVehLights}
       IN
         IF OverrideCondition(f)
         THEN /\ render' = SetTop(t, [f EXCEPT
                    !.pc = "inorig",
                    !.origLightsState =
                        ReadCell(hostFlags, g_disableArtificialLights),
                    !.origVehLightsState =
                        ReadCell(hostFlags, g_disableArtificialVehLights),
                    !.touched = @ \cup ptrs,
                    !.origCalls = @ + 1,
                    !.origArgs = OrigCallArgs(f)])
              /\ hostFlags' = OverriddenFlags(hostFlags)
         ELSE /\ render' = SetTop(t, [f EXCEPT
                    !.pc = "inorig",
                    !.origCalls = @ + 1,
                    !.origArgs = OrigCallArgs(f)])
              /\ UNCHANGED hostFlags
    /\ UNCHANGED g_entitiesMutex
    /\ UNCHANGED RenderFrame

\* bool result = g_origAddSceneLight(...): the value captured on return
CaptureResult(r) == r

\* the original host logic returns r (it does not write the flag cells);
\* the hook captures r and restores both cells if they were overridden
OrigReturnAndRestore(t, r) ==
    /\ InHook(t, "inorig")
    /\ LET f == [Top(t) EXCEPT !.result = CaptureResult(r), !.origRet = r]
           ptrs == {g_disableArtificialLights, g_disableArtificialVehLights}
       IN
         IF OverrideCondition(f)
         THEN /\ hostFlags' = RestoredFlags(hostFlags, f)
              /\ render' = SetTop(t, [f EXCEPT !.pc = "ret",
                                               !.touched = @ \cup ptrs])
         ELSE /\ render' = SetTop(t, [f EXCEPT !.pc = "ret"])
              /\ UNCHANGED hostFlags
    /\ UNCHANGED g_entitiesMutex
    /\ UNCHANGED RenderFrame

\* return result
HookReturnValue(f) == f.result

HookReturn(t) ==
    /\ InHook(t, "ret")
    /\ render' = [render EXCEPT ![t] = SubSeq(@, 1, Len(@) - 1)]
    /\ UNCHANGED <<g_entitiesMutex, hostFlags>>
    /\ UNCHANGED RenderFrame

\* ----------------------------------------------------------- specification
Next ==
    \/ \E h \in Handles, p \in Ptrs : CreateEntity(h, p)
    \/ \E h \in Handles : DestroyEntity(h)
    \/ \E t \in ScriptThreads :
         \/ \E h \in Handles \cup {NullHandle}, toggle \in BOOLEAN :
                SetIgnoreStateBegin(t, h, toggle)
         \/ SetIgnoreStateResolved(t)
         \/ SetIgnoreStateLock(t)
         \/ SetIgnoreStateMutate(t)
         \/ \E h \in Handles \cup {NullHandle} : GetIgnoreStateBegin(t, h)
         \/ GetIgnoreStateResolved(t)
         \/ GetIgnoreStateLock(t)
         \/ GetIgnoreStateFind(t)
         \/ GetIgnoreStateReturn(t)
         \/ ClearAllBegin(t)
         \/ ClearAllLock(t)
         \/ ClearAllClear(t)
         \/ EnumerateAllBegin(t)
         \/ EnumerateAllLock(t)
         \/ EnumerateAllNext(t)
         \/ EnumerateAllGuid(t)
         \/ EnumerateAllDone(t)
         \/ EnumerateAllReturn(t)
    \/ TeardownBegin(EventThread)
    \/ TeardownLock(EventThread)
    \/ TeardownClear(EventThread)
    \/ \E t \in DOMAIN render :
         \/ \E sl \in SceneLights, le \in LightEntities, a \in BOOLEAN :
                HookEnter(t, sl, le, a)
         \/ HookCheckNull(t)
         \/ HookCheckLock(t)
         \/ HookFind(t)
         \/ HookSaveAndCall(t)
         \/ \E r \in BOOLEAN : OrigReturnAndRestore(t, r)
         \/ HookReturn(t)

Spec == Init /\ [][Next]_vars

\* The steps a thread takes by itself once an operation has started: lock
\* acquisitions, set accesses, and the returns of the external calls.
ControlStep(t) ==
    \/ SetIgnoreStateResolved(t)
    \/ SetIgnoreStateLock(t)
    \/ SetIgnoreStateMutate(t)
    \/ GetIgnoreStateResolved(t)
    \/ GetIgnoreStateLock(t)
    \/ GetIgnoreStateFind(t)
    \/ GetIgnoreStateReturn(t)
    \/ ClearAllLock(t)
    \/ ClearAllClear(t)
    \/ TeardownLock(t)
    \/ TeardownClear(t)
    \/ EnumerateAllLock(t)
    \/ EnumerateAllNext(t)
    \/ EnumerateAllGuid(t)
    \/ EnumerateAllDone(t)
    \/ EnumerateAllReturn(t)

RenderStep(t) ==
    \/ HookCheckNull(t)
    \/ HookCheckLock(t)
    \/ HookFind(t)
    \/ HookSaveAndCall(t)
    \/ \E r \in BOOLEAN : OrigReturnAndRestore(t, r)
    \/ HookReturn(t)

\* Every thread keeps being scheduled and external calls return: a step a
\* thread can take stays possible until it is taken.  std::shared_mutex
\* promises no order among the threads waiting for it, so nothing stronger
\* is assumed of the lock.
Fairness ==
    /\ \A t \in ControlThreads : WF_vars(ControlStep(t))
    /\ \A t \in RenderThreadIds : WF_vars(RenderStep(t))

\* startup found both flag cells; the host has blackout on
FairInit ==
    /\ Init
    /\ g_disableArtificialLights = LightsCell
    /\ g_disableArtificialVehLights = VehLightsCell
    /\ hostFlags = [c \in {LightsCell, VehLightsCell} |-> TRUE]

FairSpec == FairInit /\ [][Next]_vars /\ Fairness

\* ------------------------------------------------- nested hook invocations
\* startup found both flag cells and every entity address is alive
NestInit ==
    /\ Init
    /\ g_disableArtificialLights = LightsCell
    /\ g_disableArtificialVehLights = VehLightsCell
    /\ guidTable = [h \in Handles |-> IF h \in Ptrs THEN h ELSE NULL]

\* the hook with re-entry from the original, beside the operations that
\* change the allow-list
NestNext ==
    \/ \E t \in ScriptThreads :
         \/ \E h \in Handles \cup {NullHandle}, toggle \in BOOLEAN :
                SetIgnoreStateBegin(t, h, toggle)
         \/ SetIgnoreStateResolved(t)
         \/ SetIgnoreStateLock(t)
         \/ SetIgnoreStateMutate(t)
    \/ TeardownBegin(EventThread)
    \/ TeardownLock(EventThread)
    \/ TeardownClear(EventThread)
    \/ \E t \in DOMAIN render :
         \/ \E sl \in SceneLights, le \in LightEntities, a \in BOOLEAN :
                \/ HookEnter(t, sl, le, a)
                \/ HookReenter(t, sl, le, a)
         \/ HookCheckNull(t)
         \/ HookCheckLock(t)
         \/ HookFind(t)
         \/ HookSaveAndCall(t)
         \/ \E r \in BOOLEAN : OrigReturnAndRestore(t, r)
         \/ HookReturn(t)

NestSpec == NestInit /\ [][NestNext]_vars

\* --------------------------------------------- two light-processing threads
MTRenderThreadIds == {0, -1}

\* startup found both flag cells, every entity address is alive, the host
\* has the first cell on and the second off, and two threads process lights
MTInit ==
    /\ g_entitiesIgnoringBlackout = {}
    /\ g_entitiesMutex = Unlocked
    /\ g_disableArtificialLights = LightsCell
    /\ g_disableArtificialVehLights = VehLightsCell
    /\ hostFlags = [c \in {LightsCell, VehLightsCell} |-> c = LightsCell]
    /\ guidTable = [h \in Handles |-> IF h \in Ptrs THEN h ELSE NULL]
    /\ script = [t \in ControlThreads |-> IdleCall]
    /\ render = [t \in MTRenderThreadIds |-> <<>>]
    /\ allowList = {}

\* the hook on either thread, beside the operations that change the
\* allow-list
MTNext ==
    \/ \E t \in ScriptThreads :
         \/ \E h \in Handles \cup {NullHandle}, toggle \in BOOLEAN :
                SetIgnoreStateBegin(t, h, toggle)
         \/ SetIgnoreStateResolved(t)
         \/ SetIgnoreStateLock(t)
         \/ SetIgnoreStateMutate(t)
    \/ TeardownBegin(EventThread)
    \/ TeardownLock(EventThread)
    \/ TeardownClear(EventThread)
    \/ \E t \in DOMAIN render :
         \/ \E sl \in SceneLights, le \in LightEntities :
                HookEnter(t, sl, le, TRUE)
         \/ HookCheckNull(t)
         \/ HookCheckLock(t)
         \/ HookFind(t)
         \/ HookSaveAndCall(t)
         \/ \E r \in BOOLEAN : OrigReturnAndRestore(t, r)
         \/ HookReturn(t)

MTSpec == MTInit /\ [][MTNext]_vars

\* ================================================================== claims
Frames == UNION {{render[t][i] : i \in 1..Len(render[t])} : t \in DOMAIN render}

Resolved ==
    g_disableArtificialLights # NullCell /\ g_disableArtificialVehLights # NullCell

BothFlags(v) == [c \in {LightsCell, VehLightsCell} |-> v]

\* C1: when a hook invocation on the single light-processing thread is about
\* to return, both flag cells hold the values they had when it was entered,
\* whatever the allow-list did meanwhile.
C1_FlagsRestored ==
    \A f \in Frames : f.pc = "ret" => hostFlags = f.enterFlags

\* an overriding invocation is about to return while its entity has been
\* removed from the allow-list during the call, and a flag was true at entry
C1_Witness ==
    \E f \in Frames :
        /\ f.pc = "ret"
        /\ OverrideCondition(f)
        /\ f.parentEntity \notin g_entitiesIgnoringBlackout
        /\ f.enterFlags[LightsCell]
        /\ ~f.enterFlags[VehLightsCell]

\* C2: for an entity that was a member at the membership check, with both
\* addresses resolved, the original host logic runs with both cells false,
\* and the cells hold their entry values again when the hook returns.
C2_MemberSeesFalse ==
    \A f \in Frames :
        (f.wasMember /\ Resolved) =>
            /\ f.pc = "inorig" => hostFlags = BothFlags(FALSE)
            /\ f.pc = "ret" => hostFlags = f.enterFlags

\* the original runs for a member entity entered under flags (true, true)
C2_Witness ==
    \E f \in Frames :
        /\ f.pc = "inorig"
        /\ f.wasMember
        /\ Resolved
        /\ f.enterFlags = BothFlags(TRUE)
        /\ hostFlags = BothFlags(FALSE)

\* C3: for an entity that was not a member at the membership check (a null
\* light entity and a null parent included) the hook touches neither cell:
\* the original runs under the entry values and they are unchanged after.
C3_NonMemberUntouched ==
    \A f \in Frames :
        (f.pc \in {"inorig", "ret"} /\ ~f.wasMember) =>
            /\ f.touched = {}
            /\ hostFlags = f.enterFlags

\* the original runs for a non-member entity with a non-null parent under
\* flags (true, true), both addresses resolved, the allow-list not empty
C3_Witness ==
    \E f \in Frames :
        /\ f.pc = "inorig"
        /\ ~f.wasMember
        /\ f.parentEntity # NULL
        /\ g_entitiesIgnoringBlackout # {}
        /\ Resolved
        /\ hostFlags = BothFlags(TRUE)

\* C4: with one or both flag-cell addresses unresolved every invocation is a
\* pass-through: no cell and no null pointer is dereferenced, the cells keep
\* their values, and the original is still called once.
C4_UnresolvedPassThrough ==
    ~Resolved =>
        \A f \in Frames :
            /\ f.touched = {}
            /\ hostFlags = f.enterFlags
            /\ f.pc \in {"inorig", "ret"} => f.origCalls = 1

\* a member entity's invocation returns with only the first address resolved
C4_Witness ==
    \E f \in Frames :
        /\ f.pc = "ret"
        /\ f.wasMember
        /\ f.shouldOverride
        /\ g_disableArtificialLights # NullCell
        /\ g_disableArtificialVehLights = NullCell
        /\ f.origCalls = 1

\* C5: every invocation calls the original exactly once, with the three
\* arguments it received, and returns the boolean the original returned.
C5_PassThroughOnce ==
    \A f \in Frames :
        /\ f.pc \in {"check", "find", "save"} => f.origCalls = 0
        /\ f.pc \in {"inorig", "ret"} =>
              f.origCalls = 1 /\ f.origArgs = f.received
        /\ f.pc = "ret" => HookReturnValue(f) = f.origRet

\* an overriding invocation for a real light entity returns true
C5_Witness ==
    \E f \in Frames :
        /\ f.pc = "ret"
        /\ f.origRet
        /\ OverrideCondition(f)
        /\ f.received[2] # NULL
        /\ f.received[3]

\* a thread is inside a call into host logic or the handle resolver
InExternalCall(t) ==
    IF t \in DOMAIN script
    THEN script[t].pc \in {"resolve", "guid"}
    ELSE \E i \in 1..Len(render[t]) : render[t][i].pc = "inorig"

\* a thread is inside an insert, erase or clear of the allow-list
InMutation(t) ==
    /\ t \in DOMAIN script
    /\ script[t].pc = "cs"
    /\ script[t].op \in {"set", "clear", "teardown"}

\* a thread is inside a find or an iteration of the allow-list
InRead(t) ==
    IF t \in DOMAIN script
    THEN \/ script[t].pc = "cs" /\ script[t].op = "get"
         \/ script[t].pc \in {"iter", "guid"} /\ script[t].op = "enum"
    ELSE InHook(t, "find")

AllThreads == DOMAIN script \cup DOMAIN render

\* C6: no thread holds the shared or the exclusive lock while it is inside
\* the original AddSceneLight, GetBaseFromGuid or GetGuidFromBase.
C6_NoLockAcrossExternalCall ==
    \A t \in AllThreads : InExternalCall(t) => ~HoldsLock(t)

\* C7: a thread inside a mutation holds the exclusive lock and is the only
\* thread inside any allow-list access; a thread inside a read holds the
\* shared lock; the lock is held by no thread outside an access.
C7_ReaderWriterExclusion ==
    /\ \A t \in AllThreads :
         /\ InMutation(t) =>
              /\ g_entitiesMutex.writer = t
              /\ \A u \in AllThreads \ {t} : ~InMutation(u) /\ ~InRead(u)
         /\ InRead(t) =>
              /\ t \in g_entitiesMutex.readers
              /\ g_entitiesMutex.writer = NoThread
         /\ HoldsLock(t) => InMutation(t) \/ InRead(t)
    /\ g_entitiesMutex.writer # NoThread => g_entitiesMutex.readers = {}

\* the hook's find and a native's read are inside the allow-list together
\* while the teardown handler waits for the exclusive lock
C7_Witness ==
    /\ Cardinality({t \in AllThreads : InRead(t)}) >= 2
    /\ \E t \in DOMAIN render : InRead(t)
    /\ script[EventThread].pc = "lock"

\* C9: the value GetIgnoreState finds for a live entity is its membership in
\* the sequential allow-list the completed mutations add up to: true after a
\* completed SetIgnoreState(h, true), false after a completed
\* SetIgnoreState(h, false), until the next mutation of that identity.
C9_GetAfterSet ==
    [][\A t \in ScriptThreads :
          (At(t, "get", "cs") /\ script'[t].pc = "ret") =>
              /\ script'[t].result = (script[t].entity \in allowList)
              /\ script[t].entity # NULL]_vars

\* GetIgnoreState is about to return true for an entity that was added, and
\* its handle still resolves to that entity
C9_Witness ==
    \E t \in ScriptThreads :
        /\ At(t, "get", "ret")
        /\ script[t].result
        /\ script[t].entity \in allowList
        /\ GetBaseFromGuid(script[t].entityHandle) = script[t].entity

\* C10: SetIgnoreState(h, true) on a member and SetIgnoreState(h, false) on
\* a non-member leave the allow-list as it is; adding a non-member adds
\* exactly that identity, so a second add changes nothing.
C10_SetIdempotent ==
    [][\A t \in ScriptThreads :
          (At(t, "set", "cs") /\ script'[t].pc = "idle") =>
              LET e == script[t].entity
                  s == g_entitiesIgnoringBlackout
                  s2 == g_entitiesIgnoringBlackout'
              IN /\ (script[t].ignoreBlackout /\ e \in s) => s2 = s
                 /\ (script[t].ignoreBlackout /\ e \notin s) =>
                        /\ s2 = s \cup {e}
                        /\ Cardinality(s2) = Cardinality(s) + 1
                 /\ (~script[t].ignoreBlackout /\ e \notin s) => s2 = s]_vars

\* SetIgnoreState(h, true) holds the lock for an identity that is already a
\* member, with another member beside it
C10_Witness ==
    \E t \in ScriptThreads :
        /\ At(t, "set", "cs")
        /\ script[t].ignoreBlackout
        /\ script[t].entity \in g_entitiesIgnoringBlackout
        /\ Cardinality(g_entitiesIgnoringBlackout) = 2

Busy(t) ==
    IF t \in DOMAIN script THEN script[t].pc # "idle" ELSE Len(render[t]) > 0

\* some thread that has started an operation can take its next step
Progress ==
    \/ \E t \in ControlThreads : ControlStep(t)
    \/ \E t \in RenderThreadIds : RenderStep(t)

\* C8 as claimed: every started operation eventually completes.
C8_EveryOperationCompletes ==
    \A t \in ControlThreads \cup RenderThreadIds : Busy(t) ~> ~Busy(t)

\* C8 as amended: the system never deadlocks (while an operation is in
\* progress some thread can step) and every thread that holds the lock
\* releases it; a thread waiting for the lock may be overtaken forever.
C8_NoDeadlockLockReleased ==
    /\ []((\E t \in AllThreads : Busy(t)) => ENABLED Progress)
    /\ \A t \in ControlThreads \cup RenderThreadIds : HoldsLock(t) ~> ~HoldsLock(t)

\* the teardown handler waits for the exclusive lock while the hook and a
\* native hold the shared lock together
C8_Witness ==
    /\ script[EventThread].pc = "lock"
    /\ \E t \in ScriptThreads : t \in g_entitiesMutex.readers
    /\ \E t \in DOMAIN render : t \in g_entitiesMutex.readers

\* C11: for a handle the resolver maps to null (the null handle or a stale
\* one) GetIgnoreState goes straight to its return with the result false and
\* SetIgnoreState, with either toggle, returns at once: neither takes the
\* lock, the allow-list is as it was, and no mutation is ever entered with a
\* null identity.
C11_NullHandleNoEffect ==
    [][\A t \in ScriptThreads :
          /\ (At(t, "set", "resolve") /\ script'[t] # script[t]
                  /\ GetBaseFromGuid(script[t].entityHandle) = NULL) =>
                /\ script'[t] = IdleCall
                /\ g_entitiesIgnoringBlackout' = g_entitiesIgnoringBlackout
                /\ g_entitiesMutex' = g_entitiesMutex
          /\ (At(t, "get", "resolve") /\ script'[t] # script[t]
                  /\ GetBaseFromGuid(script[t].entityHandle) = NULL) =>
                /\ script'[t].pc = "ret"
                /\ script'[t].result = FALSE
                /\ g_entitiesIgnoringBlackout' = g_entitiesIgnoringBlackout
                /\ g_entitiesMutex' = g_entitiesMutex
          /\ (script'[t].op \in {"set", "get"}
                  /\ script'[t].pc \in {"lock", "cs"}) =>
                script'[t].entity # NULL]_vars

\* GetIgnoreState is about to return false for a stale handle (its entity
\* was destroyed) while the allow-list still holds an identity
C11_Witness ==
    \E t \in ScriptThreads :
        /\ At(t, "get", "ret")
        /\ script[t].entityHandle \in Handles
        /\ guidTable[script[t].entityHandle] = NULL
        /\ script[t].entity = NULL
        /\ ~script[t].result
        /\ g_entitiesIgnoringBlackout # {}

\* C12: the step that completes ClearAll or the teardown handler leaves the
\* allow-list empty, also when it was empty before; an empty allow-list
\* becomes non-empty only by the insert of a SetIgnoreState(h, true); and
\* while it is empty every membership lookup of a native or of the hook
\* finds false and an enumeration ends with the empty list.
C12_ClearedStaysEmpty ==
    [][/\ \A t \in ControlThreads :
             (script[t].op \in {"clear", "teardown"} /\ script[t].pc = "cs"
                 /\ script'[t].pc = "idle") =>
                g_entitiesIgnoringBlackout' = {}
       /\ (g_entitiesIgnoringBlackout = {}
              /\ g_entitiesIgnoringBlackout' # {}) =>
             \E t \in ScriptThreads :
                 /\ At(t, "set", "cs")
                 /\ script[t].ignoreBlackout
                 /\ script'[t].pc = "idle"
       /\ g_entitiesIgnoringBlackout = {} =>
             /\ \A t \in ScriptThreads :
                  /\ (At(t, "get", "cs") /\ script'[t].pc = "ret") =>
                        ~script'[t].result
                  /\ (At(t, "enum", "iter") /\ script'[t].pc = "ret") =>
                        script'[t].entityList = <<>>
             /\ \A t \in DOMAIN render :
                  (InHook(t, "find") /\ render'[t] # render[t]) =>
                      ~render'[t][Len(render'[t])].shouldOverride]_vars

\* the teardown handler has emptied the allow-list behind a GetIgnoreState
\* that found its entity a member and has not returned yet
C12_Witness ==
    /\ g_entitiesIgnoringBlackout = {}
    /\ script[EventThread].pc = "idle"
    /\ \E t \in ScriptThreads :
          /\ At(t, "get", "ret")
          /\ script[t].result
    /\ \E f \in Frames : f.pc = "save" /\ f.parentEntity # NULL
                           /\ ~f.shouldOverride

\* C13: EnumerateAll visits each identity that is a member while it holds
\* the lock exactly once, and that is the whole allow-list of one instant;
\* for a visited identity it returns the handle the inverse resolver yields
\* for it, and nothing when no live handle resolves to the identity; no
\* handle is returned for an identity that is not a member.
C13_EnumerateExactMembers ==
    [][\A t \in ScriptThreads :
          /\ (At(t, "enum", "guid") /\ script'[t].pc = "iter") =>
                LET p == script[t].cur
                    live == {h \in Handles : guidTable[h] = p}
                IN /\ p \in allowList
                   /\ p \notin script[t].visited
                   /\ script'[t].visited = script[t].visited \cup {p}
                   /\ IF live = {}
                      THEN script'[t].entityList = script[t].entityList
                      ELSE \E h \in live :
                             script'[t].entityList =
                                 Append(script[t].entityList, h)
          /\ (At(t, "enum", "iter") /\ script'[t].pc = "ret") =>
                /\ script[t].visited = allowList
                /\ Len(script[t].entityList) <= Cardinality(allowList)
          /\ (At(t, "enum", "iter") /\ script'[t].pc = "guid") =>
                script'[t].cur \in allowList \ script[t].visited]_vars

\* EnumerateAll is about to return exactly the handle of b, the one member;
\* a second entity a is alive and not a member
C13_Witness ==
    \E t \in ScriptThreads :
        /\ At(t, "enum", "ret")
        /\ Cardinality(script[t].visited) = 1
        /\ Len(script[t].entityList) = 1
        /\ guidTable[script[t].entityList[1]] \in script[t].visited
        /\ \E k \in Handles : guidTable[k] # NULL
                               /\ guidTable[k] \notin script[t].visited

\* C14 as claimed: while the original host logic runs for an identity, with
\* both addresses resolved, the cells are forced to false if the identity is
\* in the allow-list now and untouched if it is absent now.
C14_CurrentMembershipDecides ==
    \A f \in Frames :
        (f.pc = "inorig" /\ Resolved) =>
            IF f.parentEntity \in g_entitiesIgnoringBlackout
            THEN hostFlags = BothFlags(FALSE)
            ELSE f.touched = {} /\ hostFlags = f.enterFlags

\* C14 as amended: while the original host logic runs for an identity, with
\* both addresses resolved, the cells are forced to false if the identity
\* was in the allow-list when the hook looked it up before the call, and
\* untouched if it was absent then; a mutation of the allow-list after the
\* lookup does not reach the invocation in progress.
C14_CheckTimeMembershipDecides ==
    \A f \in Frames :
        (f.pc = "inorig" /\ Resolved) =>
            IF f.wasMember
            THEN /\ hostFlags = BothFlags(FALSE)
                 /\ f.touched = {LightsCell, VehLightsCell}
            ELSE /\ f.touched = {}
                 /\ hostFlags = f.enterFlags

\* the original runs with both cells forced to false for an identity that
\* was removed from the allow-list after the hook's lookup
C14_Witness ==
    \E f \in Frames :
        /\ f.pc = "inorig"
        /\ Resolved
        /\ f.wasMember
        /\ f.parentEntity \notin g_entitiesIgnoringBlackout
        /\ f.enterFlags = BothFlags(TRUE)
        /\ hostFlags = BothFlags(FALSE)

\* the step completes ClearAll or the teardown handler
ClearStep ==
    \E t \in ControlThreads :
        /\ script[t].op \in {"clear", "teardown"}
        /\ script[t].pc = "cs"
        /\ script'[t].pc = "idle"

\* C15 as claimed: an identity leaves the allow-list only in a step that
\* completes ClearAll or teardown, or in the erase of a SetIgnoreState(h,
\* false) whose handle h resolves to that identity at that time; while no
\* handle resolves to a member no SetIgnoreState call removes it.
C15_RemovedOnlyByLiveHandle ==
    [][\A p \in Ptrs :
          (p \in g_entitiesIgnoringBlackout
              /\ p \notin g_entitiesIgnoringBlackout') =>
             \/ ClearStep
             \/ \E t \in ScriptThreads :
                    /\ At(t, "set", "cs")
                    /\ ~script[t].ignoreBlackout
                    /\ script'[t].pc = "idle"
                    /\ GetBaseFromGuid(script[t].entityHandle) = p]_vars

\* C15 as amended: an identity leaves the allow-list only in a step that
\* completes ClearAll or teardown, or in the erase of a SetIgnoreState(h,
\* false) that resolved h to that identity when it started; creating or
\* destroying an entity changes nothing in the allow-list, and a
\* SetIgnoreState that finds no identity for its handle never reaches the
\* erase.
C15_RemovedOnlyByResolvedCall ==
    [][/\ \A p \in Ptrs :
             (p \in g_entitiesIgnoringBlackout
                 /\ p \notin g_entitiesIgnoringBlackout') =>
                \/ ClearStep
                \/ \E t \in ScriptThreads :
                       /\ At(t, "set", "cs")
                       /\ ~script[t].ignoreBlackout
                       /\ script'[t].pc = "idle"
                       /\ script[t].entity = p
       /\ \A t \in ScriptThreads :
             (At(t, "set", "resolve") /\ script'[t] # script[t]) =>
                IF GetBaseFromGuid(script[t].entityHandle) = NULL
                THEN script'[t].pc = "idle"
                ELSE /\ script'[t].pc = "lock"
                     /\ script'[t].entity =
                            GetBaseFromGuid(script[t].entityHandle)
       /\ guidTable' # guidTable =>
             g_entitiesIgnoringBlackout' = g_entitiesIgnoringBlackout]_vars

\* a SetIgnoreState(h, false) is about to erase a member whose entity was
\* destroyed after the call resolved h: no handle resolves to it any more
C15_Witness ==
    \E t \in ScriptThreads :
        /\ At(t, "set", "cs")
        /\ ~script[t].ignoreBlackout
        /\ script[t].entity \in g_entitiesIgnoringBlackout
        /\ \A h \in Handles : guidTable[h] # script[t].entity
        /\ Cardinality(g_entitiesIgnoringBlackout) = 2

\* C16: the null identity is never in the allow-list and no native enters a
\* mutation or a lookup with it; an invocation of the hook whose light
\* entity or parent entity is null finds false without taking the lock or
\* looking into the set.
C16_NullNeverMember ==
    /\ NULL \notin g_entitiesIgnoringBlackout
    /\ \A t \in ScriptThreads :
          (script[t].op \in {"set", "get"} /\ script[t].pc \in {"lock", "cs"})
              => script[t].entity # NULL
    /\ \A t \in DOMAIN render : \A i \in 1..Len(render[t]) :
          LET f == render[t][i] IN
            f.parentEntity = NULL =>
                /\ f.pc # "find"
                /\ ~f.shouldOverride
                /\ ~f.wasMember
                /\ ~HoldsLock(t)
                /\ f.touched = {}

\* the hook has answered for a light entity whose parent is null, and for
\* it the original runs, while the allow-list holds every entity address
C16_Witness ==
    /\ g_entitiesIgnoringBlackout = Ptrs
    /\ \E f \in Frames :
          /\ f.pc = "inorig"
          /\ f.lightEntity # NULL
          /\ f.parentEntity = NULL
          /\ Resolved

\* the flag values an invocation runs the original under
FlagsInOrig(f) == IF OverrideCondition(f) THEN BothFlags(FALSE) ELSE f.enterFlags

\* C17: with the original re-entering the hook on the same thread, every
\* invocation, inner or outermost, member or not, is about to return with
\* both cells at the values they had when it was entered; an inner
\* invocation is entered under the values its caller runs the original
\* under, and the caller finds those values again after it.
C17_NestedFlagsRestored ==
    \A t \in DOMAIN render : \A i \in 1..Len(render[t]) :
        LET f == render[t][i] IN
          /\ f.pc = "ret" => hostFlags = f.enterFlags
          /\ (f.pc = "inorig" /\ i = Len(render[t])) =>
                hostFlags = FlagsInOrig(f)
          /\ i > 1 => f.enterFlags = FlagsInOrig(render[t][i - 1])

\* the outermost invocation, for a member and entered with both cells
\* true, is about to return after the original re-entered the hook
C17_Witness ==
    \E t \in DOMAIN render :
        /\ Depth(t) = 1
        /\ render[t][1].pc = "ret"
        /\ render[t][1].reentered
        /\ OverrideCondition(render[t][1])
        /\ render[t][1].enterFlags = BothFlags(TRUE)

\* no thread other than t is inside an access of the allow-list
AloneInSet(t) == \A u \in AllThreads \ {t} : ~InMutation(u) /\ ~InRead(u)

\* no thread is inside a mutation of the allow-list
NoMutationInProgress == \A u \in AllThreads : ~InMutation(u)

\* C18: every execution is linearizable against the sequential allow-list.
\* Each mutation takes effect in one step, alone in the set, and the set
\* always equals the sequential allow-list of the mutations applied so far;
\* each lookup of a native or of the hook answers, in one step inside its
\* call and with no mutation in progress, by the sequential allow-list of
\* that step; an enumeration visits the sequential allow-list of one step
\* of its call, the set not changing while it iterates.
C18_Linearizable ==
    [][/\ g_entitiesIgnoringBlackout = allowList
       /\ g_entitiesIgnoringBlackout' = allowList'
       /\ \A t \in ControlThreads :
            (InMutation(t) /\ script'[t].pc = "idle") => AloneInSet(t)
       /\ \A t \in ScriptThreads :
            /\ (At(t, "get", "cs") /\ script'[t].pc = "ret") =>
                  /\ NoMutationInProgress
                  /\ script'[t].result = (script[t].entity \in allowList)
            /\ (script[t].op = "enum" /\ script[t].pc \in {"iter", "guid"}) =>
                  /\ NoMutationInProgress
                  /\ allowList' = allowList
                  /\ script'[t].visited \subseteq allowList
            /\ (At(t, "enum", "iter") /\ script'[t].pc = "ret") =>
                  script[t].visited = allowList
       /\ \A t \in DOMAIN render :
            (InHook(t, "find") /\ render'[t] # render[t]) =>
                /\ NoMutationInProgress
                /\ render'[t][Len(render'[t])].shouldOverride =
                       (Top(t).parentEntity \in allowList)]_vars

\* the hook looks up a member while an enumeration has visited one of two
\* members and the teardown handler waits for the exclusive lock
C18_Witness ==
    /\ \E t \in DOMAIN render :
          InHook(t, "find") /\ Top(t).parentEntity \in allowList
    /\ \E t \in ScriptThreads :
          /\ At(t, "enum", "guid")
          /\ Cardinality(script[t].visited) = 1
          /\ Cardinality(allowList) = 2
    /\ script[EventThread].pc = "lock"

\* C19 as claimed: with hook invocations overlapping on two threads, once
\* every invocation has returned both cells hold the values they had before
\* the first was entered; no flag is left stuck at false.
C19_OverlapRestores ==
    (\A t \in DOMAIN render : Depth(t) = 0) =>
        hostFlags = [c \in {LightsCell, VehLightsCell} |-> c = LightsCell]

\* C19 as amended: with hook invocations overlapping on two threads, each
\* invocation saves the values it reads from the cells at its own save and
\* writes exactly those back, and no cell that the host had at false is
\* ever set to true; the values from before the first invocation are not
\* guaranteed to come back.
C19_EachRestoresItsOwnSave ==
    [][/\ ~hostFlags[VehLightsCell] /\ ~hostFlags'[VehLightsCell]
       /\ \A t \in DOMAIN render :
            /\ (InHook(t, "save") /\ render'[t] # render[t]
                   /\ OverrideCondition(Top(t))) =>
                  LET g == render'[t][Len(render'[t])] IN
                    /\ g.origLightsState = hostFlags[LightsCell]
                    /\ g.origVehLightsState = hostFlags[VehLightsCell]
                    /\ hostFlags' = BothFlags(FALSE)
            /\ (InHook(t, "inorig") /\ render'[t] # render[t]) =>
                  IF OverrideCondition(Top(t))
                  THEN /\ hostFlags'[LightsCell] = Top(t).origLightsState
                       /\ hostFlags'[VehLightsCell] =
                              Top(t).origVehLightsState
                  ELSE hostFlags' = hostFlags]_vars

\* one thread's invocation for a member has restored the first cell to true
\* while the other thread's invocation for a member, which saved the forced
\* false, is still inside the original and will write false back
C19_Witness ==
    \E t, u \in DOMAIN render :
        /\ t # u
        /\ InHook(t, "ret") /\ OverrideCondition(Top(t))
        /\ InHook(u, "inorig") /\ OverrideCondition(Top(u))
        /\ ~Top(u).origLightsState
        /\ hostFlags[LightsCell]

====
